---- MODULE Spec2Model ----
(***************************************************************************)
(* Model of backend/app.py: the register, login and chat handlers, the     *)
(* users table they share and the process-wide user_memory dictionary.     *)
(* Text that the code inspects or concatenates (chat messages, replies,    *)
(* history entries) is a sequence of one-character strings; e-mails,       *)
(* passwords and the JSON "message" fields of error bodies are only        *)
(* compared for equality and stay atomic.                                  *)
(***************************************************************************)
EXTENDS Integers, Sequences, FiniteSets, TLC

\* ------------------------------------------------------------------ bounds
MaxReqs == 3          \* requests the clients send in one behaviour
MaxClockReqs == 3     \* requests sent in a behaviour where the clock moves
MaxConcReqs == 3     \* requests sent in a behaviour with several workers
NumWorkers == 2       \* request-handling threads

\* ------------------------------------------------------- program constants
TokenLifetime == 3600 \* datetime.timedelta(hours=1), in seconds

\* ------------------------------------------------------------ input sets
Workers == 1..NumWorkers
Emails == {"a@x", "b@x"}
Passwords == {"p1", "p2"}
Salts == {"s1", "s2"}
Times == {0, 1, 3600, 3601}

\* JSON value of the "message" key: null (key absent) or a string
JNull == [t |-> "null", s |-> <<>>]
JStr(s) == [t |-> "str", s |-> s]
Messages ==
  { JNull,
    JStr(<<>>),
    JStr(<<"H", "e", "l", "l", "o">>),
    JStr(<<"h", "i">>) }

\* what the generation backend does with one co.generate call
BackendOutcomes ==
  { [kind |-> "ok", text |-> <<" ", "o", "k", "\n">>],
    [kind |-> "timeout", text |-> <<>>],
    [kind |-> "malformed", text |-> <<>>] }

\* what the store does for one handler: the connection opens and the
\* statements run ("ok"), psycopg2.connect raises ("none"), or the
\* connection opens and the first statement raises ("broken")
DbOutcomes == {"ok", "none", "broken"}

\* ------------------------------------------------------------ text helpers
UpperCase == <<"A", "B", "C", "D", "E", "F", "G", "H", "I", "J", "K", "L", "M",
               "N", "O", "P", "Q", "R", "S", "T", "U", "V", "W", "X", "Y", "Z">>
LowerCase == <<"a", "b", "c", "d", "e", "f", "g", "h", "i", "j", "k", "l", "m",
               "n", "o", "p", "q", "r", "s", "t", "u", "v", "w", "x", "y", "z">>

LowerChar(c) ==
  IF \E i \in 1..26 : UpperCase[i] = c
  THEN LowerCase[CHOOSE i \in 1..26 : UpperCase[i] = c]
  ELSE c

\* str.lower()
Lower(s) == [i \in 1..Len(s) |-> LowerChar(s[i])]

\* needle in hay
Contains(hay, needle) ==
  \E i \in 1..(Len(hay) - Len(needle) + 1) :
     SubSeq(hay, i, i + Len(needle) - 1) = needle

Whitespace == {" ", "\n", "\t", "\r"}

\* str.strip()
Strip(s) ==
  IF \A i \in 1..Len(s) : s[i] \in Whitespace
  THEN <<>>
  ELSE LET lo == CHOOSE i \in 1..Len(s) :
                    /\ s[i] \notin Whitespace
                    /\ \A j \in 1..(i - 1) : s[j] \in Whitespace
           hi == CHOOSE i \in 1..Len(s) :
                    /\ s[i] \notin Whitespace
                    /\ \A j \in (i + 1)..Len(s) : s[j] \in Whitespace
       IN SubSeq(s, lo, hi)

HelloWord == <<"h", "e", "l", "l", "o">>
UserPrefix == <<"U", "s", "e", "r", ":", " ">>
BotPrefix == <<"B", "o", "t", ":", " ">>
Newline == <<"\n">>
Greeting == <<"H", "i", " ", "t", "h", "e", "r", "e", "!", " ", "H", "o", "w", " ", "c", "a", "n", " ", "I", " ", "h", "e", "l", "p", " ", "y", "o", "u", " ", "t", "o", "d", "a", "y", "?">>
Fallback == <<"S", "o", "r", "r", "y", ",", " ", "I", " ", "e", "n", "c", "o", "u", "n", "t", "e", "r", "e", "d", " ", "a", "n", " ", "e", "r", "r", "o", "r", ".">>

\* f"User: {user_message}" and f"Bot: {response}"
UserTurn(m) == UserPrefix \o m
BotTurn(r) == BotPrefix \o r

\* f"User: {question}\nBot: {response}"
HistoryEntry(q, r) == UserPrefix \o q \o Newline \o BotPrefix \o r

\* "user_message is not None": the empty string passes
NotNone(m) == m.t = "str"

\* Python truthiness of the message: None and "" are falsy
Truthy(m) == m.t = "str" /\ Len(m.s) > 0

\* -------------------------------------------------------- password hashing
\* generate_password_hash: a fresh salt and the digest of salt and password
GeneratePasswordHash(pw, salt) == [salt |-> salt, digest |-> <<salt, pw>>]

\* check_password_hash: recompute the digest with the stored salt
CheckPasswordHash(h, pw) == h.digest = <<h.salt, pw>>

NoHash == [salt |-> "", digest |-> <<>>]

\* ------------------------------------------------------------------ tokens
SECRET_KEY == "secret"

Sign(key, user, exp) == <<"HS256", key, user, exp>>

\* a token whose expiry is one minute after its issue
IssueTokenOneMinute(email, t) ==
  [user |-> email, exp |-> t + 60, sig |-> Sign(SECRET_KEY, email, t + 60)]

\* jwt.encode({'user': email, 'exp': utcnow() + 1h}, SECRET_KEY, "HS256")
IssueToken(email, t) ==
  [user |-> email, exp |-> t + TokenLifetime,
   sig |-> Sign(SECRET_KEY, email, t + TokenLifetime)]

NoToken == [user |-> "", exp |-> 0, sig |-> <<>>]

\* TokenIssuer.verify of the design: Invalid on a bad signature, Expired
\* when the current time has reached the expiry, else the subject
VerifyToken(tok, t) ==
  IF tok.sig # Sign(SECRET_KEY, tok.user, tok.exp) THEN "Invalid"
  ELSE IF t >= tok.exp THEN "Expired"
  ELSE tok.user

\* ------------------------------------------------------------------ state
VARIABLES
  users,        \* the users table: a sequence of rows, id = position
  user_memory,  \* the in-memory dictionary, keyed by e-mail
  pc,           \* where each worker is in its handler
  req,          \* the request each worker is serving
  loc,          \* the handler's local variables
  last,         \* the request completed most recently, with its response
  now,          \* the clock, in seconds
  held,         \* a token some client holds, with its issue time
  regLog,       \* per e-mail, the register calls completed so far
  chatLog,      \* per e-mail, the chats completed since the process started
  appendLog,    \* per e-mail, the exchanges appended to a stored row
  nreq          \* requests sent so far

vars == <<users, user_memory, pc, req, loc, last, now, held,
          regLog, chatLog, appendLog, nreq>>

NoReq == [op |-> "none", email |-> "", password |-> "", message |-> JNull,
          method |-> "", mimetype |-> "", body |-> ""]
NoLoc == [hashed |-> NoHash, conn |-> "none", response |-> <<>>,
          backend |-> "none", calls |-> 0]
NoLast == [op |-> "none", email |-> "", password |-> "", message |-> JNull,
           db |-> "none", backend |-> "none", calls |-> 0,
           status |-> 0, msg |-> "", token |-> NoToken, text |-> <<>>,
           method |-> "", mimetype |-> "", body |-> "", routed |-> FALSE]
NoHeld == [token |-> NoToken, iat |-> 0, any |-> FALSE]

\* a key that is not in user_memory
NoState == [present |-> FALSE, name |-> "None", preferences |-> <<>>,
            history |-> <<>>, last_question |-> JNull]

\* {"name": None, "preferences": [], "history": [], "last_question": None}
FreshState == [present |-> TRUE, name |-> "None", preferences |-> <<>>,
               history |-> <<>>, last_question |-> JNull]

\* user_memory = {}
EmptyMemory == [e \in Emails |-> NoState]

NoRow == [id |-> 0, email |-> "", password |-> NoHash,
          history |-> <<>>, last_question |-> <<>>]

\* the rows of a table that WHERE email = %s selects
RowsIn(tbl, e) == {i \in 1..Len(tbl) : tbl[i].email = e}

\* SELECT * FROM users WHERE email = %s
RowsOf(e) == RowsIn(users, e)

\* cursor.fetchone(): the first matching row, or None
FetchOne(e) ==
  IF RowsOf(e) = {} THEN NoRow
  ELSE users[CHOOSE i \in RowsOf(e) : \A j \in RowsOf(e) : i <= j]

\* INSERT INTO users (email, password, history, last_question)
\*   VALUES (%s, %s, "", "")
InsertRow(e, h) ==
  Append(users, [id |-> Len(users) + 1, email |-> e, password |-> h,
                 history |-> <<>>, last_question |-> <<>>])

\* UPDATE users SET history = %s WHERE email = %s
UpdateHistoryOverwrite(e, entry) ==
  [i \in 1..Len(users) |->
     IF users[i].email = e
     THEN [users[i] EXCEPT !.history = entry]
     ELSE users[i]]

\* UPDATE users SET history = history || %s
UpdateHistoryAllRows(e, entry) ==
  [i \in 1..Len(users) |-> [users[i] EXCEPT !.history = @ \o entry]]

\* UPDATE users SET history = %s || history WHERE email = %s
UpdateHistoryPrepend(e, entry) ==
  [i \in 1..Len(users) |->
     IF users[i].email = e
     THEN [users[i] EXCEPT !.history = entry \o @]
     ELSE users[i]]

\* UPDATE users SET history = history || %s WHERE email = %s
UpdateHistory(e, entry) ==
  [i \in 1..Len(users) |->
     IF users[i].email = e
     THEN [users[i] EXCEPT !.history = @ \o entry]
     ELSE users[i]]

Init ==
  /\ users = <<>>
  /\ user_memory = EmptyMemory
  /\ pc = [w \in Workers |-> "idle"]
  /\ req = [w \in Workers |-> NoReq]
  /\ loc = [w \in Workers |-> NoLoc]
  /\ last = NoLast
  /\ now = 0
  /\ held = NoHeld
  /\ regLog = [e \in Emails |-> <<>>]
  /\ chatLog = [e \in Emails |-> <<>>]
  /\ appendLog = [e \in Emails |-> <<>>]
  /\ nreq = 0

\* the record kept of a completed request and the response it got
Response(rq, lc, status, msg, token, text) ==
  [op |-> rq.op, email |-> rq.email, password |-> rq.password,
   message |-> rq.message, db |-> lc.conn, backend |-> lc.backend,
   calls |-> lc.calls, status |-> status, msg |-> msg, token |-> token,
   text |-> text, method |-> rq.method, mimetype |-> rq.mimetype,
   body |-> rq.body, routed |-> TRUE]

\* the record kept of a request answered before its view function is called
Unrouted(rq, status, msg) ==
  [Response(rq, NoLoc, status, msg, NoToken, <<>>) EXCEPT !.routed = FALSE]

\* an exception nobody catches: Flask answers through internal_error
InternalError(rq, lc) ==
  Response(rq, lc, 500, "Internal server error", NoToken, <<>>)

Start(w, rq, lc, label) ==
  /\ req' = [req EXCEPT ![w] = rq]
  /\ loc' = [loc EXCEPT ![w] = lc]
  /\ pc' = [pc EXCEPT ![w] = label]
  /\ nreq' = nreq + 1

\* a request answered before its handler touches any shared state
StartAndReturn(w, rq) == Start(w, rq, NoLoc, "idle")

Goto(w, label) ==
  /\ pc' = [pc EXCEPT ![w] = label]
  /\ UNCHANGED loc

\* the handler returns: its locals are gone
Return(w) ==
  /\ pc' = [pc EXCEPT ![w] = "idle"]
  /\ loc' = [loc EXCEPT ![w] = NoLoc]

\* ------------------------------------------------------------ enforce_json
Routes == {"register", "login", "chat"}

\* method, declared type and body of the requests that are not a POST of a
\* JSON document: a body that is not JSON, declared as text or as JSON, and
\* a JSON document sent with a method the routes do not take
Shapes ==
  {<<"POST", "text/plain", "garbage">>,
   <<"PUT", "text/plain", "garbage">>,
   <<"PATCH", "text/plain", "garbage">>,
   <<"POST", "application/json", "garbage">>,
   <<"PUT", "application/json", "json">>}

\* request.is_json: the declared type says JSON; the body is not read
IsJson(rq) == rq.mimetype = "application/json"

\* an enforce_json that looks at POST only
EnforceJsonPostOnly(rq) == rq.method = "POST" /\ ~IsJson(rq)

\* lines 97-98: TRUE when enforce_json answers the request itself
EnforceJson(rq) == rq.method \in {"POST", "PUT", "PATCH"} /\ ~IsJson(rq)

\* a request that is not a POST of a JSON document: enforce_json answers
\* it (line 100), or the route takes POST only, or the view function is
\* called and request.json (lines 106, 130, 158) fails to parse the body
Unparsed(w, route, shape) ==
  LET rq == [op |-> route, email |-> "", password |-> "",
             message |-> JNull, method |-> shape[1],
             mimetype |-> shape[2], body |-> shape[3]]
  IN /\ pc[w] = "idle"
     /\ StartAndReturn(w, rq)
     /\ last' = IF EnforceJson(rq)
                THEN Unrouted(rq, 400,
                              "Invalid request format. JSON expected.")
                ELSE IF rq.method # "POST"
                THEN Unrouted(rq, 405, "Method Not Allowed")
                ELSE Response(rq, NoLoc, 400, "Bad Request", NoToken, <<>>)
     /\ UNCHANGED <<users, user_memory, now, held, regLog, chatLog,
                    appendLog>>

\* ---------------------------------------------------------------- register
RegisterDone(w, rq, lc, r) ==
  /\ last' = r
  /\ regLog' = [regLog EXCEPT ![rq.email] =
                  Append(@, [password |-> rq.password, status |-> r.status,
                             db |-> lc.conn])]

\* lines 106-111 and, with no connection, line 124
RegisterBegin(w, e, p, salt, o) ==
  LET rq == [op |-> "register", email |-> e, password |-> p,
             message |-> JNull, method |-> "POST",
             mimetype |-> "application/json", body |-> "json"]
      lc == [NoLoc EXCEPT !.hashed = GeneratePasswordHash(p, salt),
                          !.conn = o]
  IN /\ pc[w] = "idle"
     /\ IF o = "none"
        THEN /\ StartAndReturn(w, rq)
             /\ RegisterDone(w, rq, lc,
                  Response(rq, lc, 201, "User registered successfully",
                           NoToken, <<>>))
        ELSE /\ Start(w, rq, lc, "r_select")
             /\ UNCHANGED <<last, regLog>>
     /\ UNCHANGED <<users, user_memory, now, held, chatLog, appendLog>>

\* register without the test for an existing row
RegisterSelectNoCheck(w) ==
  /\ pc[w] = "r_select"
  /\ IF loc[w].conn = "broken"
     THEN /\ Return(w)
          /\ RegisterDone(w, req[w], loc[w], InternalError(req[w], loc[w]))
     ELSE /\ Goto(w, "r_insert")
          /\ UNCHANGED <<last, regLog>>
  /\ UNCHANGED <<users, user_memory, req, now, held, chatLog, appendLog, nreq>>

\* lines 112-117
RegisterSelect(w) ==
  /\ pc[w] = "r_select"
  /\ IF loc[w].conn = "broken"
     THEN /\ Return(w)
          /\ RegisterDone(w, req[w], loc[w], InternalError(req[w], loc[w]))
     ELSE IF FetchOne(req[w].email) # NoRow
     THEN /\ Return(w)
          /\ RegisterDone(w, req[w], loc[w],
               Response(req[w], loc[w], 400, "User already exists",
                        NoToken, <<>>))
     ELSE /\ Goto(w, "r_insert")
          /\ UNCHANGED <<last, regLog>>
  /\ UNCHANGED <<users, user_memory, req, now, held, chatLog, appendLog, nreq>>

\* the insert into a table whose email column is not UNIQUE
RegisterInsertNoUnique(w) ==
  /\ pc[w] = "r_insert"
  /\ Return(w)
  /\ users' = InsertRow(req[w].email, loc[w].hashed)
  /\ RegisterDone(w, req[w], loc[w],
       Response(req[w], loc[w], 201, "User registered successfully",
                NoToken, <<>>))
  /\ UNCHANGED <<user_memory, req, now, held, chatLog, appendLog, nreq>>

\* lines 119-124; email is UNIQUE, so a second row for it is refused
RegisterInsert(w) ==
  /\ pc[w] = "r_insert"
  /\ Return(w)
  /\ IF RowsOf(req[w].email) # {}
     THEN /\ RegisterDone(w, req[w], loc[w], InternalError(req[w], loc[w]))
          /\ UNCHANGED users
     ELSE /\ users' = InsertRow(req[w].email, loc[w].hashed)
          /\ RegisterDone(w, req[w], loc[w],
               Response(req[w], loc[w], 201, "User registered successfully",
                        NoToken, <<>>))
  /\ UNCHANGED <<user_memory, req, now, held, chatLog, appendLog, nreq>>

\* ------------------------------------------------------------------- login
\* lines 130-135; with no connection the view falls off its end and
\* returns None, which Flask refuses
LoginBegin(w, e, p, o) ==
  LET rq == [op |-> "login", email |-> e, password |-> p, message |-> JNull,
             method |-> "POST", mimetype |-> "application/json",
             body |-> "json"]
      lc == [NoLoc EXCEPT !.conn = o]
  IN /\ pc[w] = "idle"
     /\ IF o = "none"
        THEN /\ StartAndReturn(w, rq)
             /\ last' = InternalError(rq, lc)
        ELSE /\ Start(w, rq, lc, "l_select")
             /\ UNCHANGED last
     /\ UNCHANGED <<users, user_memory, now, held, regLog, chatLog,
                    appendLog>>

\* login that tests only that the row exists: "if user:"
LoginSelectNoPassword(w) ==
  LET user == FetchOne(req[w].email)
      token == IssueToken(req[w].email, now)
  IN /\ pc[w] = "l_select"
     /\ Return(w)
     /\ IF loc[w].conn = "broken"
        THEN /\ last' = InternalError(req[w], loc[w])
             /\ UNCHANGED held
        ELSE IF user # NoRow
        THEN /\ last' = Response(req[w], loc[w], 200, user.email, token, <<>>)
             /\ held' \in {[token |-> token, iat |-> now, any |-> TRUE]}
                          \cup (IF held.any THEN {held} ELSE {})
        ELSE /\ last' = Response(req[w], loc[w], 401, "Invalid credentials",
                                 NoToken, <<>>)
             /\ UNCHANGED held
     /\ UNCHANGED <<users, user_memory, req, now, regLog, chatLog, appendLog,
                    nreq>>

\* lines 136-153
LoginSelect(w) ==
  LET user == FetchOne(req[w].email)
      token == IssueToken(req[w].email, now)
  IN /\ pc[w] = "l_select"
     /\ Return(w)
     /\ IF loc[w].conn = "broken"
        THEN /\ last' = InternalError(req[w], loc[w])
             /\ UNCHANGED held
        ELSE IF user # NoRow /\ CheckPasswordHash(user.password, req[w].password)
        THEN /\ last' = Response(req[w], loc[w], 200, user.email, token, <<>>)
             /\ held' \in {[token |-> token, iat |-> now, any |-> TRUE]}
                          \cup (IF held.any THEN {held} ELSE {})
        ELSE /\ last' = Response(req[w], loc[w], 401, "Invalid credentials",
                                 NoToken, <<>>)
             /\ UNCHANGED held
     /\ UNCHANGED <<users, user_memory, req, now, regLog, chatLog, appendLog,
                    nreq>>

\* -------------------------------------------------------------------- chat
\* a chat that serves registered e-mails only
ChatBeginRegisteredOnly(w, e, m) ==
  LET rq == [op |-> "chat", email |-> e, password |-> "", message |-> m,
             method |-> "POST", mimetype |-> "application/json",
             body |-> "json"]
  IN /\ pc[w] = "idle"
     /\ IF ~Truthy(m)
        THEN /\ StartAndReturn(w, rq)
             /\ last' = Response(rq, NoLoc, 400, "No message provided",
                                 NoToken, <<>>)
        ELSE IF RowsOf(e) = {}
        THEN /\ StartAndReturn(w, rq)
             /\ last' = Response(rq, NoLoc, 401, "Invalid credentials",
                                 NoToken, <<>>)
        ELSE /\ Start(w, rq, NoLoc, "c_check")
             /\ UNCHANGED last
     /\ UNCHANGED <<users, user_memory, now, held, regLog, chatLog,
                    appendLog>>

\* lines 159-163
ChatBegin(w, e, m) ==
  LET rq == [op |-> "chat", email |-> e, password |-> "", message |-> m,
             method |-> "POST", mimetype |-> "application/json",
             body |-> "json"]
  IN /\ pc[w] = "idle"
     /\ IF ~Truthy(m)
        THEN /\ StartAndReturn(w, rq)
             /\ last' = Response(rq, NoLoc, 400, "No message provided",
                                 NoToken, <<>>)
        ELSE /\ Start(w, rq, NoLoc, "c_check")
             /\ UNCHANGED last
     /\ UNCHANGED <<users, user_memory, now, held, regLog, chatLog,
                    appendLog>>

\* chat that makes a fresh state for the e-mail on every request
ChatCheckAlwaysCreate(w) ==
  /\ pc[w] = "c_check"
  /\ Goto(w, "c_create")
  /\ UNCHANGED <<users, user_memory, req, last, now, held, regLog, chatLog,
                 appendLog, nreq>>

\* line 165
ChatCheck(w) ==
  /\ pc[w] = "c_check"
  /\ IF ~user_memory[req[w].email].present
     THEN Goto(w, "c_create")
     ELSE Goto(w, "c_lastq")
  /\ UNCHANGED <<users, user_memory, req, last, now, held, regLog, chatLog,
                 appendLog, nreq>>

\* chat that fills a new state with the turns of the stored history
ChatCreateSeeded(w) ==
  /\ pc[w] = "c_create"
  /\ user_memory' = [user_memory EXCEPT ![req[w].email] =
                       [FreshState EXCEPT !.history =
                          IF FetchOne(req[w].email).history = <<>> THEN <<>>
                          ELSE <<FetchOne(req[w].email).history>>]]
  /\ Goto(w, "c_lastq")
  /\ UNCHANGED <<users, req, last, now, held, regLog, chatLog, appendLog,
                 nreq>>

\* line 166
ChatCreate(w) ==
  /\ pc[w] = "c_create"
  /\ user_memory' = [user_memory EXCEPT ![req[w].email] = FreshState]
  /\ Goto(w, "c_lastq")
  /\ UNCHANGED <<users, req, last, now, held, regLog, chatLog, appendLog,
                 nreq>>

\* line 168
ChatLastQuestion(w) ==
  /\ pc[w] = "c_lastq"
  /\ user_memory' = [user_memory EXCEPT
                       ![req[w].email].last_question = req[w].message]
  /\ Goto(w, "c_user")
  /\ UNCHANGED <<users, req, last, now, held, regLog, chatLog, appendLog,
                 nreq>>

\* line 169
ChatUserTurn(w) ==
  /\ pc[w] = "c_user"
  /\ user_memory' = [user_memory EXCEPT ![req[w].email].history =
                       Append(@, UserTurn(req[w].message.s))]
  /\ Goto(w, "c_handle")
  /\ UNCHANGED <<users, req, last, now, held, regLog, chatLog, appendLog,
                 nreq>>

\* call_cohere_api: the stripped completion, or the fallback when
\* co.generate raises or the response has no generations
CallCohereApi(b) == IF b.kind = "ok" THEN Strip(b.text) ELSE Fallback

\* "hello" in user_message.lower()
IsGreeting(m) == Contains(Lower(m), HelloWord)

\* handle_message
HandleMessage(m, b) == IF IsGreeting(m) THEN Greeting ELSE CallCohereApi(b)

\* line 171
ChatHandle(w, b) ==
  /\ pc[w] = "c_handle"
  /\ loc' = [loc EXCEPT
               ![w].response = HandleMessage(req[w].message.s, b),
               ![w].backend = IF IsGreeting(req[w].message.s)
                              THEN "none" ELSE b.kind,
               ![w].calls = IF IsGreeting(req[w].message.s)
                            THEN @ ELSE @ + 1]
  /\ pc' = [pc EXCEPT ![w] = "c_bot"]
  /\ UNCHANGED <<users, user_memory, req, last, now, held, regLog, chatLog,
                 appendLog, nreq>>

\* line 172
ChatBotTurn(w) ==
  /\ pc[w] = "c_bot"
  /\ user_memory' = [user_memory EXCEPT ![req[w].email].history =
                       Append(@, BotTurn(loc[w].response))]
  /\ Goto(w, "c_save")
  /\ UNCHANGED <<users, req, last, now, held, regLog, chatLog, appendLog,
                 nreq>>

\* save_user_history and line 175
ChatSave(w, o) ==
  LET e == req[w].email
      q == req[w].message.s
      r == loc[w].response
      lc == [loc[w] EXCEPT !.conn = o]
  IN /\ pc[w] = "c_save"
     /\ Return(w)
     /\ users' = IF o = "ok" THEN UpdateHistory(e, HistoryEntry(q, r))
                 ELSE users
     /\ last' = IF o = "broken" THEN InternalError(req[w], lc)
                ELSE Response(req[w], lc, 200, "", NoToken, r)
     /\ chatLog' = [chatLog EXCEPT ![e] = Append(@, [q |-> q, r |-> r])]
     /\ appendLog' = IF o = "ok" /\ RowsOf(e) # {}
                     THEN [appendLog EXCEPT ![e] = Append(@, [q |-> q, r |-> r])]
                     ELSE appendLog
     /\ UNCHANGED <<user_memory, req, now, held, regLog, nreq>>

\* ------------------------------------------------------------- environment
\* the process stops and starts again: user_memory = {} (line 35); the
\* requests it was serving get no response
Restart ==
  /\ user_memory' = EmptyMemory
  /\ pc' = [w \in Workers |-> "idle"]
  /\ req' = [w \in Workers |-> NoReq]
  /\ loc' = [w \in Workers |-> NoLoc]
  /\ chatLog' = [e \in Emails |-> <<>>]
  /\ UNCHANGED <<users, last, now, held, regLog, appendLog, nreq>>

\* time passes
Tick ==
  /\ now' \in {t \in Times : t > now}
  /\ UNCHANGED <<users, user_memory, pc, req, loc, last, held, regLog,
                 chatLog, appendLog, nreq>>

\* ---------------------------------------------------------- specifications
\* a client sends a request to worker w; dbs is what the store may do
Send(w, dbs) ==
  \/ \E e \in Emails, p \in Passwords, salt \in Salts, o \in dbs :
        RegisterBegin(w, e, p, salt, o)
  \/ \E e \in Emails, p \in Passwords, o \in dbs : LoginBegin(w, e, p, o)
  \/ \E e \in Emails, m \in Messages : ChatBegin(w, e, m)

\* worker w runs the next step of its handler
Step(w, dbs) ==
  \/ RegisterSelect(w)
  \/ RegisterInsert(w)
  \/ LoginSelect(w)
  \/ ChatCheck(w)
  \/ ChatCreate(w)
  \/ ChatLastQuestion(w)
  \/ ChatUserTurn(w)
  \/ \E b \in BackendOutcomes : ChatHandle(w, b)
  \/ ChatBotTurn(w)
  \/ \E o \in dbs : ChatSave(w, o)

\* requests served one after the other, clock standing still
Next ==
  \/ nreq < MaxReqs /\ Send(1, DbOutcomes)
  \/ nreq < MaxReqs /\ \E route \in Routes, shape \in Shapes :
                          Unparsed(1, route, shape)
  \/ Step(1, DbOutcomes)
  \/ Restart

Spec == Init /\ [][Next]_vars

\* what the store does when its statements never fail
ClockDbOutcomes == {"ok", "none"}

\* requests served one after the other while time passes; the store is
\* reachable or not, and its statements do not fail
NextClock ==
  \/ nreq < MaxClockReqs /\ Send(1, ClockDbOutcomes)
  \/ Step(1, ClockDbOutcomes)
  \/ Tick

SpecClock == Init /\ [][NextClock]_vars

\* what the store does when it is reachable and works
ConcDbOutcomes == {"ok"}

\* the requests that race with each other: register and chat calls for one
\* e-mail, the chats with a message that goes to the backend
ConcEmails == {"a@x"}
ConcSalts == {"s1"}
ConcMessages == {JStr(<<"h", "i">>)}
ConcBackendOutcomes == {b \in BackendOutcomes : b.kind # "malformed"}

\* a client sends one of these requests to worker w
SendConc(w) ==
  \/ \E e \in ConcEmails, p \in Passwords, salt \in ConcSalts,
        o \in ConcDbOutcomes : RegisterBegin(w, e, p, salt, o)
  \/ \E e \in ConcEmails, m \in ConcMessages : ChatBegin(w, e, m)

\* worker w runs the next step of its register or chat handler
StepConc(w) ==
  \/ RegisterSelect(w)
  \/ RegisterInsert(w)
  \/ ChatCheck(w)
  \/ ChatCreate(w)
  \/ ChatLastQuestion(w)
  \/ ChatUserTurn(w)
  \/ \E b \in ConcBackendOutcomes : ChatHandle(w, b)
  \/ ChatBotTurn(w)
  \/ \E o \in ConcDbOutcomes : ChatSave(w, o)

\* requests served by several workers at once, their steps interleaved in
\* any order, the store reachable
NextConc ==
  \E w \in Workers :
     \/ nreq < MaxConcReqs /\ SendConc(w)
     \/ StepConc(w)

SpecConc == Init /\ [][NextConc]_vars

\* ------------------------------------------------------------ claim helpers
LastOf(s) == s[Len(s)]

AllIdle == \A w \in Workers : pc[w] = "idle"

\* every register call of a log found the store reachable and working
StoreReachable(log) == \A k \in 1..Len(log) : log[k].db = "ok"

\* the hashes that hashing a password can produce
HashesOf(pw) == {GeneratePasswordHash(pw, salt) : salt \in Salts}

\* worker w answers its request in this step
Completes(w, op) ==
  /\ req[w].op = op
  /\ pc[w] # "idle"
  /\ pc'[w] = "idle"
  /\ req'[w] = req[w]

\* the in-memory history that a log of exchanges amounts to
RECURSIVE TurnsOf(_)
TurnsOf(log) ==
  IF log = <<>> THEN <<>>
  ELSE TurnsOf(SubSeq(log, 1, Len(log) - 1))
         \o <<UserTurn(LastOf(log).q), BotTurn(LastOf(log).r)>>

\* the stored history that a log of exchanges amounts to
RECURSIVE EntriesOf(_)
EntriesOf(log) ==
  IF log = <<>> THEN <<>>
  ELSE EntriesOf(SubSeq(log, 1, Len(log) - 1))
         \o HistoryEntry(LastOf(log).q, LastOf(log).r)

\* ------------------------------------------------------------------- C1
\* C1: while every register call for an e-mail finds the store reachable,
\* the first of them answers 201 and adds exactly one row for the e-mail,
\* with empty history and last_question and a hash of its password; every
\* later one answers 400 'User already exists' and leaves the table as it
\* was, so the e-mail keeps its one row.
C1_RegisterOnce ==
  [][\A e \in Emails :
       (regLog'[e] # regLog[e] /\ StoreReachable(regLog'[e])) =>
         LET call == LastOf(regLog'[e])
         IN IF regLog[e] = <<>>
            THEN /\ call.status = 201
                 /\ last'.status = 201
                 /\ last'.msg = "User registered successfully"
                 /\ RowsIn(users, e) = {}
                 /\ Len(users') = Len(users) + 1
                 /\ SubSeq(users', 1, Len(users)) = users
                 /\ LastOf(users').email = e
                 /\ LastOf(users').history = <<>>
                 /\ LastOf(users').last_question = <<>>
                 /\ LastOf(users').password \in HashesOf(call.password)
                 /\ Cardinality(RowsIn(users', e)) = 1
            ELSE /\ call.status = 400
                 /\ last'.status = 400
                 /\ last'.msg = "User already exists"
                 /\ users' = users
                 /\ Cardinality(RowsIn(users', e)) = 1
                 /\ users'[CHOOSE i \in RowsIn(users', e) : TRUE].password
                       \in HashesOf(regLog[e][1].password)]_vars

\* a second register call, with another password, was refused
C1_Witness ==
  \E e \in Emails :
     /\ Len(regLog[e]) = 2
     /\ StoreReachable(regLog[e])
     /\ regLog[e][1].status = 201
     /\ regLog[e][2].status = 400
     /\ regLog[e][2].password # regLog[e][1].password
     /\ last.op = "register" /\ last.email = e /\ last.status = 400

\* ------------------------------------------------------------------- C2
\* C2: a login that reached the store answers 200 with a token whenever
\* the last register call for its e-mail carried the same password and
\* answered 201, and only when some register call for its e-mail carried
\* that password and answered 201.
C2_LoginIffRegistered ==
  (last.op = "login" /\ last.db = "ok") =>
     LET log == regLog[last.email]
     IN /\ (/\ log # <<>>
            /\ LastOf(log).password = last.password
            /\ LastOf(log).status = 201)
              => (last.status = 200 /\ last.token # NoToken)
        /\ last.status = 200 =>
              \E k \in 1..Len(log) :
                 log[k].password = last.password /\ log[k].status = 201

\* ------------------------------------------------------------------- C3
\* C3: a login whose lookup ran and found no row for the e-mail, or a row
\* whose hash does not match the password, answers 401 'Invalid
\* credentials' without a token and changes neither the table nor
\* user_memory; and whenever a response carries a token, it answers a login
\* whose row matched the password, and the token's subject is that login's
\* e-mail.
C3_LoginRejects ==
  [][/\ \A w \in Workers :
          (Completes(w, "login") /\ loc[w].conn = "ok") =>
             LET user == FetchOne(req[w].email)
                 bad == \/ user = NoRow
                        \/ user.password \notin HashesOf(req[w].password)
             IN /\ bad =>
                     /\ last'.status = 401
                     /\ last'.msg = "Invalid credentials"
                     /\ last'.token = NoToken
                     /\ held' = held
                     /\ users' = users
                     /\ user_memory' = user_memory
                /\ ~bad => last'.status = 200
     /\ (last' # last /\ last'.token # NoToken) =>
          \E w \in Workers :
             /\ Completes(w, "login")
             /\ FetchOne(req[w].email) # NoRow
             /\ FetchOne(req[w].email).password \in HashesOf(req[w].password)
             /\ last'.token.user = req[w].email
             /\ last'.email = req[w].email
     /\ (held' # held) =>
          /\ last' # last
          /\ held'.token = last'.token
          /\ held'.token # NoToken]_vars

\* a login with the wrong password for a registered e-mail was refused
\* while a conversation was in memory
C3_Witness ==
  /\ last.op = "login"
  /\ last.db = "ok"
  /\ last.status = 401
  /\ FetchOne(last.email) # NoRow
  /\ FetchOne(last.email).password \notin HashesOf(last.password)
  /\ \E e \in Emails : user_memory[e].history # <<>>

\* ------------------------------------------------------------------- C4
\* C4: a token issued at time T expires at T + 3600 s and stays valid until
\* then whatever is called meanwhile: it verifies, with the e-mail of its
\* login as subject, at every time before T + 3600 and is refused as
\* Expired at every time from T + 3600 on.
C4_TokenLifetime ==
  held.any =>
    /\ held.token.exp = held.iat + 3600
    /\ held.iat <= now
    /\ (now < held.iat + 3600) =>
          /\ VerifyToken(held.token, now) = held.token.user
          /\ held.token.user \in Emails
    /\ (now >= held.iat + 3600) => VerifyToken(held.token, now) = "Expired"

\* a token is refused 3601 seconds after its issue, after another request
C4_Witness ==
  /\ held.any
  /\ now = held.iat + 3601
  /\ last.op # "login"
  /\ VerifyToken(held.token, now) = "Expired"

\* ------------------------------------------------------------------- C5
\* C5: a chat whose message contains "hello" in any case is answered with
\* the greeting and calls the generation backend not at all; any other
\* accepted chat calls it exactly once.
C5_GreetingShortCircuit ==
  (last.op = "chat" /\ Truthy(last.message)) =>
     IF IsGreeting(last.message.s)
     THEN /\ last.status = 200
          /\ last.text = Greeting
          /\ last.calls = 0
     ELSE last.calls = 1

\* ------------------------------------------------------------------- C6
\* C6: an accepted chat whose backend call failed is answered 200 with
\* the fallback text, and 'Bot: ' with the fallback is the turn recorded
\* last in the e-mail's in-memory history.
C6_GatewayFailSoft ==
  (last.op = "chat" /\ last.backend \in {"timeout", "malformed"}) =>
     /\ last.status = 200
     /\ last.text = Fallback
     /\ (AllIdle /\ chatLog[last.email] # <<>>) =>
           LastOf(user_memory[last.email].history) = BotTurn(Fallback)

\* ------------------------------------------------------------------- C7
\* C7: between requests, the in-memory history of an e-mail is exactly
\* 'User: m1', 'Bot: r1', ..., 'User: mN', 'Bot: rN' for the N chats
\* accepted for it since the process started, in the order of the calls,
\* and last_question is mN.
C7_MemoryHistory ==
  AllIdle =>
    \A e \in Emails :
       /\ user_memory[e].history = TurnsOf(chatLog[e])
       /\ Len(user_memory[e].history) = 2 * Len(chatLog[e])
       /\ chatLog[e] # <<>> =>
            user_memory[e].last_question = JStr(LastOf(chatLog[e]).q)

\* two chats with different messages and replies were recorded
C7_Witness ==
  /\ AllIdle
  /\ \E e \in Emails :
        /\ Len(chatLog[e]) = 2
        /\ chatLog[e][1].q # chatLog[e][2].q
        /\ chatLog[e][1].r # chatLog[e][2].r
        /\ Len(user_memory[e].history) = 4

\* ------------------------------------------------------------------- C8
\* C8: the stored history of a registered e-mail is the concatenation, in
\* call order, of the 'User: q\nBot: r' entries of the appends that reached
\* the store since the e-mail was registered with an empty history.
C8_DurableHistory ==
  \A e \in Emails :
     /\ RowsOf(e) # {} => FetchOne(e).history = EntriesOf(appendLog[e])
     /\ RowsOf(e) = {} => appendLog[e] = <<>>

\* two different exchanges were appended to one row
C8_Witness ==
  \E e \in Emails :
     /\ RowsOf(e) # {}
     /\ Len(appendLog[e]) = 2
     /\ appendLog[e][1] # appendLog[e][2]
     /\ FetchOne(e).history # <<>>

\* ------------------------------------------------------------------- C9
\* C9: an accepted chat whose history write failed, the store being
\* unreachable or the update raising, is still answered 200 with the reply,
\* and both turns of the exchange are in the in-memory history.
C9_WriteFailureSwallowed ==
  (last.op = "chat" /\ Truthy(last.message) /\ last.db \in {"none", "broken"}) =>
     /\ last.status = 200
     /\ (AllIdle /\ chatLog[last.email] # <<>>) =>
           /\ last.text = LastOf(chatLog[last.email]).r
           /\ Len(user_memory[last.email].history) >= 2

\* ------------------------------------------------------------------ C10
\* a POST whose body is a JSON document
PostOfJson(rq) == rq.method = "POST" /\ IsJson(rq) /\ rq.body = "json"

\* C10: a chat (a POST of a JSON document to /chat) whose message is absent
\* or empty is answered 400 'No message provided' and changes nothing:
\* user_memory and the table stay as they were and the backend is not called.
C10_EmptyMessageRejected ==
  [][\A w \in Workers :
       (pc[w] = "idle" /\ req'[w].op = "chat" /\ nreq' = nreq + 1
          /\ PostOfJson(req'[w])
          /\ ~(req'[w].message.t = "str" /\ req'[w].message.s # <<>>)) =>
         /\ pc'[w] = "idle"
         /\ last'.op = "chat"
         /\ last'.email = req'[w].email
         /\ last'.status = 400
         /\ last'.msg = "No message provided"
         /\ last'.calls = 0
         /\ last'.text = <<>>
         /\ user_memory' = user_memory
         /\ users' = users
         /\ chatLog' = chatLog
         /\ appendLog' = appendLog]_vars

\* an empty message was refused for an e-mail without a conversation while
\* another e-mail had one
C10_Witness ==
  /\ last.op = "chat"
  /\ last.message = JStr(<<>>)
  /\ last.status = 400
  /\ ~user_memory[last.email].present
  /\ \E e \in Emails : user_memory[e].present

\* ------------------------------------------------------------------ C11
\* a chat for e-mail e that is past the creation of its state
PastCreate(w, e) ==
  /\ req[w].op = "chat"
  /\ req[w].email = e
  /\ pc[w] \in {"c_lastq", "c_user", "c_handle", "c_bot", "c_save"}

\* the process has just started again
Restarted ==
  /\ \A w \in Workers : req[w] = NoReq /\ pc[w] = "idle"
  /\ \A e \in Emails : chatLog[e] = <<>>

\* C11: user_memory has a state for an e-mail exactly when a chat with a
\* non-empty message was accepted for it since the process started (it
\* completed, or it is being served and has passed line 166); a restart
\* leaves user_memory empty and the table as it was; and a state is created
\* with an empty history whatever the stored history of the e-mail is.
C11_MemoryLifetime ==
  [][/\ \A e \in Emails :
          user_memory'[e].present <=>
             \/ chatLog'[e] # <<>>
             \/ \E w \in Workers : PastCreate(w, e)'
     /\ (Restarted' /\ nreq' = nreq /\ now' = now) =>
          /\ user_memory' = EmptyMemory
          /\ users' = users
     /\ \A e \in Emails :
          (~user_memory[e].present /\ user_memory'[e].present) =>
             /\ user_memory'[e].history = <<>>
             /\ user_memory'[e].last_question = JNull
             /\ users' = users]_vars

\* after a restart a chat was recorded for an e-mail whose stored history
\* holds two exchanges while its in-memory history holds one
C11_Witness ==
  /\ AllIdle
  /\ \E e \in Emails :
        /\ Len(appendLog[e]) = 2
        /\ Len(chatLog[e]) = 1
        /\ FetchOne(e).history = EntriesOf(appendLog[e])
        /\ user_memory[e].present
        /\ user_memory[e].history = TurnsOf(chatLog[e])

\* ------------------------------------------------------------------ C12
\* a request has just been answered in the step that received it
AnsweredAtOnce == nreq' = nreq + 1 /\ pc' = pc

\* the answer changed nothing and the backend was not called
NothingChanged ==
  /\ users' = users
  /\ user_memory' = user_memory
  /\ regLog' = regLog
  /\ chatLog' = chatLog
  /\ appendLog' = appendLog
  /\ held' = held
  /\ last'.calls = 0
  /\ last'.token = NoToken

C13_StoreUnavailable ==
  (last.op \in {"register", "login"} /\ last.routed /\ last.body = "json"
     /\ last.db = "none") =>
    /\ last.status # 500
    /\ last.token = NoToken
    /\ (last.op = "register" => last.status # 201)

\* ------------------------------------------------------------------ C14
\* C14: after register has answered 201 for an e-mail, the table holds a
\* row for that e-mail, whether or not the connection could be opened.
C14_CreatedMeansStored ==
  \A e \in Emails :
    (\E k \in 1..Len(regLog[e]) : regLog[e][k].status = 201) =>
       RowsOf(e) # {}

\* ------------------------------------------------------------------ C15
\* the register calls of a log that were answered 201
Created(log) == {k \in 1..Len(log) : log[k].status = 201}

HoldsEveryTurn(h, log) ==
  LET N == Len(log)
  IN /\ Len(h) = 2 * N
     /\ \E u \in [1..N -> 1..Len(h)], b \in [1..N -> 1..Len(h)] :
          /\ \A k \in 1..N :
               /\ u[k] < b[k]
               /\ h[u[k]] = UserTurn(log[k].q)
               /\ h[b[k]] = BotTurn(log[k].r)
          /\ Cardinality({u[k] : k \in 1..N} \cup {b[k] : k \in 1..N})
               = 2 * N

\* C16: once the concurrent chats accepted for an e-mail have all
\* completed, its in-memory history holds exactly one 'User:' and one
\* 'Bot:' entry for each of them, the 'User:' entry of a chat before its
\* 'Bot:' entry.
C16_NoTurnLost ==
  AllIdle =>
    \A e \in Emails : HoldsEveryTurn(user_memory[e].history, chatLog[e])

\* ------------------------------------------------------------------ C17
\* C17: once the concurrent chats for a registered e-mail have all
\* completed, every one that completed since the row exists has appended
\* its entry exactly once: the stored history is the concatenation of
\* their entries in the order in which the updates committed.
C17_NoAppendLost ==
  AllIdle =>
    \A e \in Emails :
      RowsOf(e) # {} =>
        LET n == Len(appendLog[e])
            m == Len(chatLog[e])
        IN /\ n <= m
           /\ appendLog[e] = SubSeq(chatLog[e], m - n + 1, m)
           /\ FetchOne(e).history = EntriesOf(appendLog[e])

\* two chats with different replies for a registered e-mail ran at the
\* same time (both 'User:' entries precede both 'Bot:' entries, and the
\* chat whose 'Bot:' entry came second stored its entry first) and both
\* entries are stored
C17_Witness ==
  /\ AllIdle
  /\ \E e \in Emails :
        /\ Len(appendLog[e]) = 2
        /\ appendLog[e][1].r # appendLog[e][2].r
        /\ Len(user_memory[e].history) = 4
        /\ user_memory[e].history[1] = UserTurn(appendLog[e][1].q)
        /\ user_memory[e].history[2] = UserTurn(appendLog[e][2].q)
        /\ user_memory[e].history[3] = BotTurn(appendLog[e][2].r)
        /\ user_memory[e].history[4] = BotTurn(appendLog[e][1].r)
        /\ Len(FetchOne(e).history)
             = Len(HistoryEntry(appendLog[e][1].q, appendLog[e][1].r))
               + Len(HistoryEntry(appendLog[e][2].q, appendLog[e][2].r))

\* ------------------------------------------------------------------ C18
\* C18: a chat naming an e-mail with a non-empty message is served
\* whatever the state: it passes line 162 without any look at a token or
\* at the table, and when it completes it is answered 200, the e-mail's
\* in-memory history ends with its 'User:' and 'Bot:' entries, its
\* last_question is the message, and, when the e-mail has a row and the
\* store is reachable, the row's history has grown by its entry.
C18_ChatNeedsNoToken ==
  [][\A w \in Workers :
       /\ (pc[w] = "idle" /\ nreq' = nreq + 1 /\ req'[w].op = "chat"
             /\ PostOfJson(req'[w]) /\ Truthy(req'[w].message)) =>
            pc'[w] = "c_check"
       /\ Completes(w, "chat") =>
            LET e == req[w].email
                q == req[w].message.s
                h == user_memory'[e].history
            IN /\ last'.status = 200
               /\ last'.email = e
               /\ user_memory'[e].present
               /\ Len(h) >= 2
               /\ h[Len(h) - 1] = UserTurn(q)
               /\ h[Len(h)] = BotTurn(last'.text)
               /\ user_memory'[e].last_question = JStr(q)
               /\ (RowsOf(e) # {} /\ last'.db = "ok") =>
                    users' = UpdateHistory(e, HistoryEntry(q, last'.text))]_vars

\* a chat was served for a registered e-mail whose only token in a
\* client's hands has expired, and its entry was stored
C18_Witness ==
  /\ last.op = "chat"
  /\ last.status = 200
  /\ held.any
  /\ held.token.user = last.email
  /\ now >= held.token.exp
  /\ user_memory[last.email].present
  /\ FetchOne(last.email).history # <<>>

\* ------------------------------------------------------------------ C19
\* worker w takes a step of a request to the route op: it receives the
\* request, or runs a step of its handler
StepOf(w, op) ==
  \/ /\ pc[w] = "idle"
     /\ nreq' = nreq + 1
     /\ req'[w].op = op
     /\ \A v \in Workers \ {w} : pc'[v] = pc[v] /\ req'[v] = req[v]
  \/ /\ pc[w] # "idle"
     /\ req[w].op = op
     /\ req'[w] = req[w]
     /\ pc'[w] # pc[w]

\* C19: a step of login changes neither the table nor user_memory; a step
\* of chat keeps the number of rows and every row's id, e-mail, hash and
\* last_question, changes the history of rows of its own e-mail only (no
\* row at all when its e-mail has none) and the in-memory state of its own
\* e-mail only; and no step of anything removes a row or changes a row's
\* e-mail, so the set of registered e-mails only grows.
C19_Frame ==
  [][/\ \A w \in Workers :
          /\ StepOf(w, "login") =>
               /\ users' = users
               /\ user_memory' = user_memory
          /\ StepOf(w, "chat") =>
               LET e == req'[w].email
               IN /\ Len(users') = Len(users)
                  /\ \A i \in 1..Len(users) :
                       /\ users'[i].id = users[i].id
                       /\ users'[i].email = users[i].email
                       /\ users'[i].password = users[i].password
                       /\ users'[i].last_question = users[i].last_question
                       /\ users[i].email # e => users'[i] = users[i]
                  /\ RowsOf(e) = {} => users' = users
                  /\ \A e2 \in Emails \ {e} :
                       user_memory'[e2] = user_memory[e2]
     /\ Len(users') >= Len(users)
     /\ \A i \in 1..Len(users) : users'[i].email = users[i].email]_vars

\* a chat stored its entry in the row of its e-mail while the table held
\* a row for another e-mail, whose history stayed empty
C19_Witness ==
  /\ last.op = "chat"
  /\ last.status = 200
  /\ Len(users) = 2
  /\ FetchOne(last.email).history = HistoryEntry(last.message.s, last.text)
  /\ \E i \in 1..Len(users) :
        users[i].email # last.email /\ users[i].history = <<>>
====
